---- MODULE Spec2Model ----
(***************************************************************************)
(* Model of the DeepSeek research agent (DeepSeekAgent component, the      *)
(* geminiService functions) and of the companion ChatBot component.        *)
(*                                                                         *)
(* A step of the model is what JavaScript runs without yielding: a user    *)
(* event handler up to its first await, or the continuation of an async    *)
(* function from the arrival of a remote reply up to the next await.       *)
(* React state is the state committed at the end of such a step.           *)
(***************************************************************************)
EXTENDS Naturals, Sequences, FiniteSets

VARIABLES
    \* DeepSeekAgent: React state
    topic, stage, report, sources, error, plan, progressLog,
    \* DeepSeekAgent: refs
    accumulatedResults, accumulatedSources,
    \* the running handleResearch invocation: its closure and locals
    runTopic, initialPlan, i, queriesToSearch, qi,
    \* the remote call the research flow awaits, and the history of the
    \* current run: its calls and their outcomes in order, and the functions
    \* that were handed a response of another shape than the one they asked for
    inflight, trace, malformed,
    \* the stage before the last step, then the arguments of the setStage
    \* calls of that step in order
    stageSets,
    \* ChatBot: React state, ref, and the sendMessage call it awaits
    history, input, isLoading, chatRef, chatInflight,
    \* what the last invocation of handleSend did, or how the last reply
    \* to sendMessage came
    sendOutcome

researchVars == <<topic, stage, report, sources, error, plan, progressLog,
                  accumulatedResults, accumulatedSources,
                  runTopic, initialPlan, i, queriesToSearch, qi,
                  inflight, trace, malformed, stageSets>>
chatVars == <<history, input, isLoading, chatRef, chatInflight, sendOutcome>>
vars == <<researchVars, chatVars>>

-----------------------------------------------------------------------------
(* Bounds of the model *)

\* longest plan the remote model returns
MaxPlanLen == 1
\* number of chat messages the user sends
MaxSends == 3

-----------------------------------------------------------------------------
(* Text: a string is a sequence of one-character strings *)

RECURSIVE TrimStart(_, _)
TrimStart(s, ws) ==
    IF s # <<>> /\ Head(s) = ws THEN TrimStart(Tail(s), ws) ELSE s

RECURSIVE TrimEnd(_, _)
TrimEnd(s, ws) ==
    IF s # <<>> /\ s[Len(s)] = ws THEN TrimEnd(SubSeq(s, 1, Len(s) - 1), ws) ELSE s

\* String.prototype.trim
Trim(s, ws) == TrimEnd(TrimStart(s, ws), ws)

RECURSIVE Remove(_, _)
\* String.prototype.replace(/x/g, '')
Remove(s, x) ==
    IF s = <<>> THEN <<>>
    ELSE IF Head(s) = x THEN Remove(Tail(s), x)
    ELSE <<Head(s)>> \o Remove(Tail(s), x)

-----------------------------------------------------------------------------
(* JSON values and the text of a structured response.  A response text is  *)
(* a sequence of tokens: a code fence, white space, a JSON document, or    *)
(* text that is no JSON.                                                   *)

JNull == [type |-> "null"]
JArray(items) == [type |-> "array", items |-> items]
JNumber(n) == [type |-> "number", value |-> n]

FenceJson == [tok |-> "fence_json"]
Fence == [tok |-> "fence"]
Ws == [tok |-> " "]
Junk == [tok |-> "junk"]
Doc(d) == [tok |-> "json", doc |-> d]

Has(obj, f) == f \in DOMAIN obj

\* JavaScript truthiness of a JSON value
Truthy(v) ==
    /\ v.type # "null"
    /\ ~(v.type = "number" /\ v.value = 0)

\* Array.isArray
IsArray(v) == v.type = "array"

\* parseJson: strip the fences, trim, JSON.parse; null when that throws
ParseJson_NoFenceStrip(jsonString) ==
    LET cleanedJson == Trim(jsonString, Ws)
    IN  IF Len(cleanedJson) = 1 /\ cleanedJson[1].tok = "json"
        THEN cleanedJson[1].doc
        ELSE JNull

parseJson(jsonString) ==
    LET cleanedJson == Trim(Remove(Remove(jsonString, FenceJson), Fence), Ws)
    IN  IF Len(cleanedJson) = 1 /\ cleanedJson[1].tok = "json"
        THEN cleanedJson[1].doc
        ELSE JNull

-----------------------------------------------------------------------------
(* geminiService: each function maps the reply of ai.models.generateContent *)
(* (a rejection, or a response) to the value it returns or the error it     *)
(* throws.                                                                  *)

Throw(msg) == [threw |-> TRUE, message |-> msg]
Return(v) == [threw |-> FALSE, value |-> v]

generateResearchPlan(resp) ==
    LET msg == "Failed to generate a research plan. The AI model may be temporarily unavailable."
    IN  IF ~resp.ok THEN Throw(msg)
        ELSE LET result == parseJson(resp.text)
             IN  IF ~Truthy(result) \/ ~Has(result, "plan") \/ ~Truthy(result.plan)
                 THEN Throw(msg)
                 ELSE Return(result.plan)

\* chunk.web?.uri || ''
ChunkUri(chunk) ==
    IF Has(chunk, "web") /\ Has(chunk.web, "uri") THEN chunk.web.uri ELSE ""

\* chunk.web?.title || 'Untitled Source'
ChunkTitle(chunk) ==
    IF Has(chunk, "web") /\ Has(chunk.web, "title") /\ chunk.web.title # ""
    THEN chunk.web.title
    ELSE "Untitled Source"

RECURSIVE MapChunks(_)
\* rawChunks.map(...).filter(source => source.uri)
MapChunks(rawChunks) ==
    IF rawChunks = <<>> THEN <<>>
    ELSE LET source == [uri |-> ChunkUri(Head(rawChunks)), title |-> ChunkTitle(Head(rawChunks))]
         IN  (IF source.uri # "" THEN <<source>> ELSE <<>>) \o MapChunks(Tail(rawChunks))

\* Map.prototype.set keyed by uri: an existing key keeps its place and takes
\* the new value, a new key goes last
MapSet(m, s) ==
    IF \E k \in 1..Len(m) : m[k].uri = s.uri
    THEN [k \in 1..Len(m) |-> IF m[k].uri = s.uri THEN s ELSE m[k]]
    ELSE Append(m, s)

RECURSIVE MapOf(_, _)
MapOf(m, arr) ==
    IF arr = <<>> THEN m ELSE MapOf(MapSet(m, Head(arr)), Tail(arr))

\* the bug of keeping the first entry of a uri
UniqueSources_FirstWins(arr) ==
    LET RECURSIVE go(_, _)
        go(m, rest) ==
            IF rest = <<>> THEN m
            ELSE IF \E k \in 1..Len(m) : m[k].uri = Head(rest).uri
                 THEN go(m, Tail(rest))
                 ELSE go(Append(m, Head(rest)), Tail(rest))
    IN  go(<<>>, arr)

\* Array.from(new Map(arr.map(s => [s.uri, s])).values())
UniqueSources(arr) == MapOf(<<>>, arr)

\* the message of its error names the query in the source; the warning of
\* the caller's log carries the query beside it
searchWithGrounding(query, resp) ==
    IF ~resp.ok THEN Throw("Failed to search the web for the query.")
    ELSE LET rawChunks == IF Has(resp, "groundingChunks") THEN resp.groundingChunks ELSE <<>>
         IN  Return([text |-> resp.text, sources |-> UniqueSources(MapChunks(rawChunks))])

evaluateCompleteness(resp) ==
    LET msg == "AI failed to evaluate the completeness of the search results."
    IN  IF ~resp.ok THEN Throw(msg)
        ELSE LET result == parseJson(resp.text)
             IN  IF result = JNull THEN Throw(msg) ELSE Return(result)

refineSearchQueries(resp) ==
    LET msg == "AI failed to generate new search queries."
    IN  IF ~resp.ok THEN Throw(msg)
        ELSE LET result == parseJson(resp.text)
             IN  IF ~Truthy(result) \/ ~Has(result, "queries") \/ ~Truthy(result.queries)
                 THEN Throw(msg)
                 ELSE Return(result.queries)

\* the bug of returning whatever was parsed
synthesizeReport_NoCheck(resp) ==
    IF ~resp.ok THEN Throw("The AI failed to synthesize the final report.")
    ELSE Return(parseJson(resp.text))

synthesizeReport(resp) ==
    LET msg == "The AI failed to synthesize the final report. This may be due to the complexity of the topic or an issue with the underlying data."
    IN  IF ~resp.ok THEN Throw(msg)
        ELSE LET result == parseJson(resp.text)
             IN  IF ~Truthy(result) THEN Throw(msg) ELSE Return(result)

-----------------------------------------------------------------------------
(* What the remote service may answer *)

Rejected == [ok |-> FALSE]
Text(tokens) == [ok |-> TRUE, text |-> tokens]

\* a document alone, a fenced document, no JSON, JSON null, an empty text
TextsOf(docs, fenced) ==
    {<<Doc(d)>> : d \in docs} \cup {<<FenceJson, Ws, Doc(fenced), Ws, Fence>>}
        \cup {<<Junk>>, <<Doc(JNull)>>, <<>>}

PlanPool ==
    << [english_question |-> "e1", japanese_question |-> "j1"],
       [english_question |-> "e2", japanese_question |-> "j2"],
       [english_question |-> "e3"],
       [english_question |-> "e4", japanese_question |-> "j4"] >>

PlanDocs ==
    {[type |-> "object", plan |-> JArray(SubSeq(PlanPool, 1, n))] : n \in 0..MaxPlanLen}
        \cup {[type |-> "object"], [type |-> "object", plan |-> JNumber(5)]}

PlanResponses ==
    {Rejected} \cup {Text(t) : t \in TextsOf(PlanDocs,
                        [type |-> "object", plan |-> JArray(SubSeq(PlanPool, 1, 1))])}

SearchResponses ==
    { Rejected,
      [ok |-> TRUE, text |-> "overview", groundingChunks |->
          << [web |-> [uri |-> "u1", title |-> "A"]],
             [web |-> [uri |-> "", title |-> "B"]],
             [noweb |-> TRUE],
             [web |-> [uri |-> "u1", title |-> ""]] >>],
      [ok |-> TRUE, text |-> "overview", groundingChunks |->
          << [web |-> [uri |-> "u2", title |-> "A"]],
             [web |-> [uri |-> "u1", title |-> "B"]] >>] }

EvComplete ==
    [type |-> "object", is_complete |-> TRUE,
     unanswered_questions |-> JArray(<<>>), reasoning |-> "covered"]
EvIncomplete ==
    [type |-> "object", is_complete |-> FALSE,
     unanswered_questions |-> JArray(<<"q1">>), reasoning |-> "gaps"]

EvaluationDocs ==
    { EvComplete, EvIncomplete,
      [type |-> "object"],
      [type |-> "object", is_complete |-> TRUE, reasoning |-> "covered"] }

EvaluationResponses == {Rejected} \cup {Text(t) : t \in TextsOf(EvaluationDocs, EvComplete)}

RefinedPool == << [english_query |-> "e1", japanese_query |-> "rj1"] >>

QueriesDocs ==
    { [type |-> "object", queries |-> JArray(<<>>)],
      [type |-> "object", queries |-> JArray(RefinedPool)],
      [type |-> "object"],
      [type |-> "object", queries |-> JNumber(5)] }

RefineResponses ==
    {Rejected} \cup {Text(t) : t \in TextsOf(QueriesDocs,
                        [type |-> "object", queries |-> JArray(<<>>)])}

GoodReport ==
    [type |-> "object", title |-> "t", summary |-> "s",
     sections |-> JArray(<<[heading |-> "h", content |-> "c"]>>)]

ReportDocs == {GoodReport, [type |-> "object"]}

SynthesisResponses == {Rejected} \cup {Text(t) : t \in TextsOf(ReportDocs, GoodReport)}

Topics == {<<" ">>, <<" ", "a", " ">>}

-----------------------------------------------------------------------------
(* DeepSeekAgent *)

Last(s) == s[Len(s)]

MAX_ITERATIONS_Plus1 == 3 + 1

MAX_ITERATIONS == 3

None == [fn |-> "none"]
NoError == [null |-> TRUE]
ErrorOf(msg) == [message |-> msg]
EmptyPlan == JArray(<<>>)

CallEv(call) == [ev |-> "call", fn |-> call.fn, call |-> call]
ReturnEv(f, v) == [ev |-> "return", fn |-> f, value |-> v]
ThrowEv(f, msg) == [ev |-> "throw", fn |-> f, message |-> msg]

ResearchInit ==
    /\ topic = <<>>
    /\ stage = "IDLE"
    /\ stageSets = <<"IDLE">>
    /\ report = JNull
    /\ sources = <<>>
    /\ error = NoError
    /\ plan = EmptyPlan
    /\ progressLog = <<>>
    /\ accumulatedResults = <<>>
    /\ accumulatedSources = <<>>
    /\ runTopic = <<>>
    /\ initialPlan = EmptyPlan
    /\ i = 0
    /\ queriesToSearch = <<>>
    /\ qi = 0
    /\ inflight = None
    /\ trace = <<>>
    /\ malformed = {}

\* geminiService loads only with API_KEY set, and then the chat session exists
Init ==
    /\ ResearchInit
    /\ history = <<>>
    /\ input = <<>>
    /\ isLoading = FALSE
    /\ chatRef = TRUE
    /\ chatInflight = <<>>
    /\ sendOutcome = "none"

\* the shape each structured call asks for in its responseSchema: a JSON
\* object with the required fields
Required(f) ==
    CASE f = "generateResearchPlan" -> {"plan"}
      [] f = "evaluateCompleteness" -> {"is_complete", "unanswered_questions", "reasoning"}
      [] f = "refineSearchQueries" -> {"queries"}
      [] f = "synthesizeReport" -> {"title", "summary", "sections"}
      [] OTHER -> {}

\* the document of a response text, fenced or not; JSON null when it has none
DocumentOf(text) ==
    LET docs == {k \in 1..Len(text) : text[k].tok = "json"}
    IN  IF Cardinality(docs) = 1 /\ \A k \in 1..Len(text) : text[k].tok # "junk"
        THEN text[CHOOSE k \in docs : TRUE].doc
        ELSE JNull

\* a response arrived, and it is not of the shape the call asked for
Malformed(f, resp) ==
    /\ resp.ok
    /\ LET d == DocumentOf(resp.text)
       IN  \/ d.type # "object"
           \/ \E r \in Required(f) : ~Has(d, r)
           \/ \E r \in Required(f) \cap {"plan", "queries", "sections", "unanswered_questions"} :
                  Has(d, r) /\ ~IsArray(d[r])

Noted(f, resp) == IF Malformed(f, resp) THEN malformed \cup {f} ELSE malformed

\* the setStage calls of one step, in their order: the stage ends as the
\* last of them, and stays as it is when there is none
setStage(sets) ==
    /\ stageSets' = <<stage>> \o sets
    /\ stage' = Last(<<stage>> \o sets)

\* the locals of runSearchAndEvaluateLoop go out of scope
LoopLocalsGone ==
    /\ initialPlan' = EmptyPlan
    /\ i' = 0
    /\ queriesToSearch' = <<>>
    /\ qi' = 0

\* the bug of ending a failed run as a finished one
handleResearchCatch_Complete(log, trc, msg) ==
    /\ setStage(<<"COMPLETE">>)
    /\ error' = error
    /\ progressLog' = log
    /\ report' = report
    /\ inflight' = None
    /\ trace' = trc
    /\ runTopic' = <<>>
    /\ LoopLocalsGone

\* the bug of a catch block that reports the error and leaves the stage
handleResearchCatch_NoStage(log, trc, msg) ==
    /\ setStage(<<>>)
    /\ error' = ErrorOf(msg)
    /\ progressLog' = Append(log, [msg |-> "Error", message |-> msg])
    /\ report' = report
    /\ inflight' = None
    /\ trace' = trc
    /\ runTopic' = <<>>
    /\ LoopLocalsGone

\* handleResearch, catch (e): the run ends in ERROR
handleResearchCatch(log, trc, msg) ==
    LET errorMessage == IF msg = "" THEN "An unknown error occurred." ELSE msg
    IN  /\ setStage(<<"ERROR">>)
        /\ error' = ErrorOf(errorMessage)
        /\ progressLog' = Append(log, [msg |-> "Error", message |-> errorMessage])
        /\ report' = report
        /\ inflight' = None
        /\ trace' = trc
        /\ runTopic' = <<>>
        /\ LoopLocalsGone

\* the bug of leaving the loop after its first query
SearchOrEvaluate_FirstQueryOnly(log, trc, it, qs, k, res, pl, tp, sets) ==
    /\ IF k <= Len(qs) /\ k = 1
       THEN LET call == [fn |-> "searchWithGrounding", query |-> qs[k]]
            IN  /\ setStage(sets)
                /\ progressLog' = Append(log, [msg |-> "Searching for", query |-> qs[k]])
                /\ inflight' = call
                /\ trace' = Append(trc, CallEv(call))
       ELSE LET call == [fn |-> "evaluateCompleteness", plan |-> pl, searchResults |-> res]
            IN  /\ setStage(Append(sets, "EVALUATING"))
                /\ progressLog' = Append(log,
                       [msg |-> "Evaluating collected information for completeness..."])
                /\ inflight' = call
                /\ trace' = Append(trc, CallEv(call))
    /\ error' = error
    /\ report' = report
    /\ runTopic' = tp
    /\ initialPlan' = pl
    /\ i' = it
    /\ queriesToSearch' = qs
    /\ qi' = IF k <= Len(qs) /\ k = 1 THEN k ELSE 0

\* the for...of loop over queriesToSearch at query k, then EVALUATING:
\* runs up to the next await
SearchOrEvaluate(log, trc, it, qs, k, res, pl, tp, sets) ==
    /\ IF k <= Len(qs)
       THEN LET call == [fn |-> "searchWithGrounding", query |-> qs[k]]
            IN  /\ setStage(sets)
                /\ progressLog' = Append(log, [msg |-> "Searching for", query |-> qs[k]])
                /\ inflight' = call
                /\ trace' = Append(trc, CallEv(call))
       ELSE LET call == [fn |-> "evaluateCompleteness", plan |-> pl, searchResults |-> res]
            IN  /\ setStage(Append(sets, "EVALUATING"))
                /\ progressLog' = Append(log,
                       [msg |-> "Evaluating collected information for completeness..."])
                /\ inflight' = call
                /\ trace' = Append(trc, CallEv(call))
    /\ error' = error
    /\ report' = report
    /\ runTopic' = tp
    /\ initialPlan' = pl
    /\ i' = it
    /\ queriesToSearch' = qs
    /\ qi' = IF k <= Len(qs) THEN k ELSE 0

\* the bug of evaluating against the queries of the iteration
BeginIteration_PlanFromQueries(log, trc, it, qs, res, pl, tp) ==
    SearchOrEvaluate(
        log \o << [msg |-> "--- Iteration", n |-> it + 1, of |-> MAX_ITERATIONS],
                  [msg |-> "Searching the web with queries...", n |-> Len(qs)] >>,
        trc, it, qs, 1, res, JArray(qs), tp, <<"SEARCHING">>)

\* the bug of searching without setStage('SEARCHING')
BeginIteration_NoStage(log, trc, it, qs, res, pl, tp) ==
    SearchOrEvaluate(
        log \o << [msg |-> "--- Iteration", n |-> it + 1, of |-> MAX_ITERATIONS],
                  [msg |-> "Searching the web with queries...", n |-> Len(qs)] >>,
        trc, it, qs, 1, res, pl, tp, <<>>)

\* the bug of adding the refined queries to the set instead of replacing it
BeginIteration_KeepsOldQueries(log, trc, it, qs, res, pl, tp) ==
    SearchOrEvaluate(
        log \o << [msg |-> "--- Iteration", n |-> it + 1, of |-> MAX_ITERATIONS],
                  [msg |-> "Searching the web with queries...", n |-> Len(qs)] >>,
        trc, it, queriesToSearch \o qs, 1, res, pl, tp, <<"SEARCHING">>)

\* the head of the for loop body: iteration it (0-based) over the queries qs
BeginIteration(log, trc, it, qs, res, pl, tp) ==
    SearchOrEvaluate(
        log \o << [msg |-> "--- Iteration", n |-> it + 1, of |-> MAX_ITERATIONS],
                  [msg |-> "Searching the web with queries...", n |-> Len(qs)] >>,
        trc, it, qs, 1, res, pl, tp, <<"SEARCHING">>)

\* runSynthesis up to its await
runSynthesis(log, trc, res, tp) ==
    LET call == [fn |-> "synthesizeReport", topic |-> tp, searchResults |-> res]
    IN  /\ setStage(<<"SYNTHESIZING">>)
        /\ progressLog' = Append(log, [msg |-> "Phase 4: Synthesizing final report..."])
        /\ inflight' = call
        /\ trace' = Append(trc, CallEv(call))
        /\ error' = error
        /\ report' = report
        /\ runTopic' = tp
        /\ LoopLocalsGone

\* item.english_question, item.japanese_question (undefined when missing)
Field(item, f) == IF Has(item, f) THEN item[f] ELSE "undefined"

RECURSIVE FlatMap(_, _, _)
\* items.flatMap(item => [item[f], item[g]])
FlatMap(items, f, g) ==
    IF items = <<>> THEN <<>>
    ELSE <<Field(Head(items), f), Field(Head(items), g)>> \o FlatMap(Tail(items), f, g)

\* the bug of showing the search button in every view
SearchButtonShown_Always == TRUE

\* the view renderContent shows has the topic field and the search button
SearchButtonShown == stage = "IDLE" \/ stage = "ERROR"

\* report.sections.map(...) in renderContent
ReportRenders(r) == Has(r, "sections") /\ IsArray(r.sections)

\* the bug of a reset button in every view
ResetButtonShown_Always == TRUE

\* the view renderContent shows has a button bound to resetState
ResetButtonShown ==
    \/ stage = "ERROR"
    \/ stage = "COMPLETE" /\ Truthy(report) /\ ReportRenders(report)

\* onChange of the topic field
SetTopic(t) ==
    /\ SearchButtonShown
    /\ t # topic
    /\ topic' = t
    /\ setStage(<<>>)
    /\ UNCHANGED <<report, sources, error, plan, progressLog,
                   accumulatedResults, accumulatedSources,
                   runTopic, initialPlan, i, queriesToSearch, qi,
                   inflight, trace, malformed>>
    /\ UNCHANGED chatVars

\* the bug of a reset that leaves the evidence and the sources of the run
ResetState_KeepsEvidence ==
    /\ ResetButtonShown
    /\ topic' = <<>>
    /\ setStage(<<"IDLE">>)
    /\ report' = JNull
    /\ error' = NoError
    /\ plan' = EmptyPlan
    /\ progressLog' = <<>>
    /\ malformed' = {}
    /\ trace' = <<>>
    /\ UNCHANGED <<sources, accumulatedResults, accumulatedSources,
                   runTopic, initialPlan, i, queriesToSearch, qi, inflight>>
    /\ UNCHANGED chatVars

\* the button that calls resetState
ResetState ==
    /\ ResetButtonShown
    /\ topic' = <<>>
    /\ setStage(<<"IDLE">>)
    /\ report' = JNull
    /\ sources' = <<>>
    /\ error' = NoError
    /\ plan' = EmptyPlan
    /\ progressLog' = <<>>
    /\ accumulatedResults' = <<>>
    /\ accumulatedSources' = <<>>
    /\ malformed' = {}
    /\ trace' = <<>>
    /\ UNCHANGED <<runTopic, initialPlan, i, queriesToSearch, qi, inflight>>
    /\ UNCHANGED chatVars

\* the bug of a reset that empties the React state and leaves the refs
HandleResearch_KeepsRefs ==
    /\ SearchButtonShown
    /\ IF Trim(topic, " ") = <<>>
       THEN /\ error' = ErrorOf("Please enter a research topic.")
            /\ setStage(<<>>)
            /\ UNCHANGED <<topic, report, sources, plan, progressLog,
                           accumulatedResults, accumulatedSources,
                           runTopic, initialPlan, i, queriesToSearch, qi,
                           inflight, trace, malformed>>
       ELSE LET call == [fn |-> "generateResearchPlan", topic |-> topic]
            IN  /\ topic' = <<>>
                /\ report' = JNull
                /\ sources' = <<>>
                /\ error' = NoError
                /\ plan' = EmptyPlan
                /\ UNCHANGED <<accumulatedResults, accumulatedSources>>
                /\ setStage(<<"IDLE", "PLANNING">>)
                /\ progressLog' = <<[msg |-> "Phase 1: Planning research..."]>>
                /\ inflight' = call
                /\ trace' = <<CallEv(call)>>
                /\ malformed' = {}
                /\ runTopic' = topic
                /\ LoopLocalsGone
    /\ UNCHANGED chatVars

\* the search button: handleResearch up to the await in runPlanning
HandleResearch ==
    /\ SearchButtonShown
    /\ IF Trim(topic, " ") = <<>>
       THEN /\ error' = ErrorOf("Please enter a research topic.")
            /\ setStage(<<>>)
            /\ UNCHANGED <<topic, report, sources, plan, progressLog,
                           accumulatedResults, accumulatedSources,
                           runTopic, initialPlan, i, queriesToSearch, qi,
                           inflight, trace, malformed>>
       ELSE LET call == [fn |-> "generateResearchPlan", topic |-> topic]
            IN  /\ topic' = <<>>
                /\ report' = JNull
                /\ sources' = <<>>
                /\ error' = NoError
                /\ plan' = EmptyPlan
                /\ accumulatedResults' = <<>>
                /\ accumulatedSources' = <<>>
                /\ setStage(<<"IDLE", "PLANNING">>)
                /\ progressLog' = <<[msg |-> "Phase 1: Planning research..."]>>
                /\ inflight' = call
                /\ trace' = <<CallEv(call)>>
                /\ malformed' = {}
                /\ runTopic' = topic
                /\ LoopLocalsGone
    /\ UNCHANGED chatVars

\* the reply to generateResearchPlan: the rest of runPlanning, then
\* runSearchAndEvaluateLoop up to its first await
PlanReply(resp) ==
    /\ inflight.fn = "generateResearchPlan"
    /\ malformed' = Noted(inflight.fn, resp)
    /\ LET out == generateResearchPlan(resp)
       IN  IF out.threw
           THEN /\ handleResearchCatch(progressLog,
                        Append(trace, ThrowEv(inflight.fn, out.message)), out.message)
                /\ UNCHANGED plan
           ELSE LET researchPlan == out.value
                    trc == Append(trace, ReturnEv(inflight.fn, researchPlan))
                IN  /\ plan' = researchPlan
                    /\ IF IsArray(researchPlan)
                       THEN BeginIteration(
                                Append(progressLog, [msg |-> "Plan created with key questions.",
                                                     n |-> Len(researchPlan.items)]),
                                trc, 0,
                                FlatMap(researchPlan.items, "english_question", "japanese_question"),
                                accumulatedResults, researchPlan, runTopic)
                       ELSE handleResearchCatch(
                                Append(progressLog,
                                       [msg |-> "Plan created with undefined key questions."]),
                                trc, "initialPlan.flatMap is not a function")
    /\ UNCHANGED <<topic, sources, accumulatedResults, accumulatedSources>>
    /\ UNCHANGED chatVars

\* the bug of keeping only the latest result
AppendEvidence_Overwrite(res, query, text) == <<[query |-> query, text |-> text]>>

\* accumulatedResultsRef.current += `\n\n--- Query: ${query} ---\n${text}`
AppendEvidence(res, query, text) == Append(res, [query |-> query, text |-> text])

\* the bug of letting a failed search end the run
searchCatch_Rethrow(log, trc, it, qs, k, res, pl, tp, msg) ==
    handleResearchCatch(log, trc, msg)

\* catch (searchError) in the for...of loop: warn and go on with the next query
searchCatch(log, trc, it, qs, k, res, pl, tp, msg) ==
    SearchOrEvaluate(
        Append(log, [msg |-> "Warning: Failed to search. Continuing...",
                     query |-> qs[k], reason |-> msg]),
        trc, it, qs, k + 1, res, pl, tp, <<>>)

\* the bug of appending to the evidence in a finally, failure text included
SearchReply_FailureRecorded(resp) ==
    /\ inflight.fn = "searchWithGrounding"
    /\ malformed' = malformed
    /\ LET query == queriesToSearch[qi]
           out == searchWithGrounding(query, resp)
       IN  IF out.threw
           THEN LET res == AppendEvidence(accumulatedResults, query, out.message)
                IN  /\ searchCatch(progressLog,
                            Append(trace, ThrowEv(inflight.fn, out.message)),
                            i, queriesToSearch, qi, res, initialPlan, runTopic,
                            out.message)
                    /\ accumulatedResults' = res
                    /\ UNCHANGED <<accumulatedSources, sources>>
           ELSE LET res == AppendEvidence(accumulatedResults, query, out.value.text)
                    acc == accumulatedSources \o out.value.sources
                IN  /\ accumulatedResults' = res
                    /\ accumulatedSources' = acc
                    /\ sources' = UniqueSources(acc)
                    /\ SearchOrEvaluate(progressLog,
                           Append(trace, ReturnEv(inflight.fn, out.value)),
                           i, queriesToSearch, qi + 1, res, initialPlan, runTopic, <<>>)
    /\ UNCHANGED <<topic, plan>>
    /\ UNCHANGED chatVars

\* the reply to searchWithGrounding: the rest of the try block, the next
\* queries' turn, and after the last query the call of evaluateCompleteness
SearchReply(resp) ==
    /\ inflight.fn = "searchWithGrounding"
    /\ malformed' = malformed
    /\ LET query == queriesToSearch[qi]
           out == searchWithGrounding(query, resp)
       IN  IF out.threw
           THEN /\ searchCatch(progressLog,
                        Append(trace, ThrowEv(inflight.fn, out.message)),
                        i, queriesToSearch, qi, accumulatedResults, initialPlan, runTopic,
                        out.message)
                /\ UNCHANGED <<accumulatedResults, accumulatedSources, sources>>
           ELSE LET res == AppendEvidence(accumulatedResults, query, out.value.text)
                    acc == accumulatedSources \o out.value.sources
                IN  /\ accumulatedResults' = res
                    /\ accumulatedSources' = acc
                    /\ sources' = UniqueSources(acc)
                    /\ SearchOrEvaluate(progressLog,
                           Append(trace, ReturnEv(inflight.fn, out.value)),
                           i, queriesToSearch, qi + 1, res, initialPlan, runTopic, <<>>)
    /\ UNCHANGED <<topic, plan>>
    /\ UNCHANGED chatVars

\* the bug of never taking the evaluation's word
IsComplete_Never(evaluation) == FALSE

\* if (evaluation.is_complete)
IsComplete(evaluation) == Has(evaluation, "is_complete") /\ evaluation.is_complete

\* the bug of going on with no query
NoNewQueries_Never(newQueries) == FALSE

\* if (newQueries.length === 0)
NoNewQueries(newQueries) == IsArray(newQueries) /\ Len(newQueries.items) = 0

\* the bug of refining once more when the budget is spent
IsLastIteration_Never(it) == FALSE

\* if (i === MAX_ITERATIONS - 1)
IsLastIteration(it) == it = MAX_ITERATIONS - 1

\* the reply to evaluateCompleteness: the exits of the loop, or the call of
\* refineSearchQueries
EvaluateReply(resp) ==
    /\ inflight.fn = "evaluateCompleteness"
    /\ malformed' = Noted(inflight.fn, resp)
    /\ LET out == evaluateCompleteness(resp)
       IN  IF out.threw
           THEN handleResearchCatch(progressLog,
                    Append(trace, ThrowEv(inflight.fn, out.message)), out.message)
           ELSE LET evaluation == out.value
                    trc == Append(trace, ReturnEv(inflight.fn, evaluation))
                    log == Append(progressLog,
                               [msg |-> "Evaluation complete.",
                                reasoning |-> Field(evaluation, "reasoning")])
                IN  IF IsComplete(evaluation)
                    THEN runSynthesis(
                             Append(log, [msg |-> "Information is sufficient. Proceeding to synthesis."]),
                             trc, accumulatedResults, runTopic)
                    ELSE IF IsLastIteration(i)
                    THEN runSynthesis(
                             Append(log, [msg |-> "Max iterations reached. Proceeding to synthesis with available data."]),
                             trc, accumulatedResults, runTopic)
                    ELSE IF ~Has(evaluation, "unanswered_questions")
                    THEN handleResearchCatch(log, trc,
                             "Cannot read properties of undefined (reading 'length')")
                    ELSE LET call == [fn |-> "refineSearchQueries",
                                      unansweredQuestions |-> evaluation.unanswered_questions]
                         IN  /\ setStage(<<>>)
                             /\ progressLog' = Append(log,
                                    [msg |-> "Information is incomplete. Refining search.",
                                     n |-> Len(evaluation.unanswered_questions.items)])
                             /\ inflight' = call
                             /\ trace' = Append(trc, CallEv(call))
                             /\ UNCHANGED <<error, report, runTopic, initialPlan, i,
                                            queriesToSearch, qi>>
    /\ UNCHANGED <<topic, plan, sources, accumulatedResults, accumulatedSources>>
    /\ UNCHANGED chatVars

\* the reply to refineSearchQueries: the exit of the loop, or the next
\* iteration up to its first await
RefineReply(resp) ==
    /\ inflight.fn = "refineSearchQueries"
    /\ malformed' = Noted(inflight.fn, resp)
    /\ LET out == refineSearchQueries(resp)
       IN  IF out.threw
           THEN handleResearchCatch(progressLog,
                    Append(trace, ThrowEv(inflight.fn, out.message)), out.message)
           ELSE LET newQueries == out.value
                    trc == Append(trace, ReturnEv(inflight.fn, newQueries))
                IN  IF NoNewQueries(newQueries)
                    THEN runSynthesis(
                             Append(progressLog, [msg |-> "Could not generate new queries. Proceeding to synthesis."]),
                             trc, accumulatedResults, runTopic)
                    ELSE IF ~IsArray(newQueries)
                    THEN handleResearchCatch(progressLog, trc,
                             "newQueries.flatMap is not a function")
                    ELSE IF i + 1 < MAX_ITERATIONS
                    THEN BeginIteration(progressLog, trc, i + 1,
                             FlatMap(newQueries.items, "english_query", "japanese_query"),
                             accumulatedResults, initialPlan, runTopic)
                    ELSE runSynthesis(progressLog, trc, accumulatedResults, runTopic)
    /\ UNCHANGED <<topic, plan, sources, accumulatedResults, accumulatedSources>>
    /\ UNCHANGED chatVars

\* the reply to synthesizeReport: the rest of runSynthesis and of handleResearch
SynthesisReply(resp) ==
    /\ inflight.fn = "synthesizeReport"
    /\ malformed' = Noted(inflight.fn, resp)
    /\ LET out == synthesizeReport(resp)
       IN  IF out.threw
           THEN handleResearchCatch(progressLog,
                    Append(trace, ThrowEv(inflight.fn, out.message)), out.message)
           ELSE /\ report' = out.value
                /\ progressLog' = Append(progressLog, [msg |-> "Report synthesized successfully!"])
                /\ setStage(<<"COMPLETE">>)
                /\ inflight' = None
                /\ trace' = Append(trace, ReturnEv(inflight.fn, out.value))
                /\ error' = error
                /\ runTopic' = <<>>
                /\ LoopLocalsGone
    /\ UNCHANGED <<topic, plan, sources, accumulatedResults, accumulatedSources>>
    /\ UNCHANGED chatVars

Next ==
    \/ \E t \in Topics : SetTopic(t)
    \/ HandleResearch
    \/ ResetState
    \/ \E resp \in PlanResponses : PlanReply(resp)
    \/ \E resp \in SearchResponses : SearchReply(resp)
    \/ \E resp \in EvaluationResponses : EvaluateReply(resp)
    \/ \E resp \in RefineResponses : RefineReply(resp)
    \/ \E resp \in SynthesisResponses : SynthesisReply(resp)

Spec == Init /\ [][Next]_vars

\* the remote service answers the call the run awaits, or fails it
Reply ==
    \/ \E resp \in PlanResponses : PlanReply(resp)
    \/ \E resp \in SearchResponses : SearchReply(resp)
    \/ \E resp \in EvaluationResponses : EvaluateReply(resp)
    \/ \E resp \in RefineResponses : RefineReply(resp)
    \/ \E resp \in SynthesisResponses : SynthesisReply(resp)

\* the research flow when every remote call eventually resolves or fails
FairSpec == Spec /\ WF_vars(Reply)

\* an evaluation that says neither complete nor incomplete
EvNoFlag ==
    [type |-> "object", unanswered_questions |-> JArray(<<"q1">>), reasoning |-> "gaps"]

\* the research flow with evaluations lacking is_complete among the answers
\* of the remote model
EvaluationNext ==
    \/ \E t \in Topics : SetTopic(t)
    \/ HandleResearch
    \/ ResetState
    \/ \E resp \in PlanResponses : PlanReply(resp)
    \/ \E resp \in SearchResponses : SearchReply(resp)
    \/ \E resp \in EvaluationResponses \cup {Text(<<Doc(EvNoFlag)>>)} : EvaluateReply(resp)
    \/ \E resp \in RefineResponses : RefineReply(resp)
    \/ \E resp \in SynthesisResponses : SynthesisReply(resp)

EvaluationSpec == Init /\ [][EvaluationNext]_vars

-----------------------------------------------------------------------------
(* ChatBot.  handleSend and the onChange of the input field are taken as   *)
(* callable at any time: the disabled attributes of the field and of the   *)
(* button only remove some of these invocations.                           *)

\* the ChatBot component alone: without API_KEY it has no session
ChatInit ==
    /\ ResearchInit
    /\ history = <<>>
    /\ input = <<>>
    /\ isLoading = FALSE
    /\ chatRef \in BOOLEAN
    /\ chatInflight = <<>>
    /\ sendOutcome = "none"

ChatInputs == {<<>>, <<" ">>, <<"h">>, <<" ", "h">>}

ChatReplies == {[ok |-> FALSE], [ok |-> TRUE, text |-> "answer"]}

\* the fixed apology of the catch block (Japanese in the source)
Fallback == "An error occurred. Please try again."

UserMessages(h) == SelectSeq(h, LAMBDA m : m.role = "user")

\* the bug of not looking at the pending flag
CanSend_IgnoreLoading(inp, loading, ref) == Trim(inp, " ") # <<>> /\ ref

\* the negation of: if (!input.trim() || isLoading || !chatRef.current) return
CanSend(inp, loading, ref) == Trim(inp, " ") # <<>> /\ ~loading /\ ref

\* onChange of the chat input
ChatSetInput(t) ==
    /\ t # input
    /\ input' = t
    /\ UNCHANGED <<history, isLoading, chatRef, chatInflight, sendOutcome>>
    /\ UNCHANGED researchVars

\* handleSend up to its await
HandleSend ==
    /\ IF CanSend(input, isLoading, chatRef)
       THEN /\ Len(UserMessages(history)) < MaxSends
            /\ history' = Append(history, [role |-> "user", text |-> input])
            /\ input' = <<>>
            /\ isLoading' = TRUE
            /\ chatInflight' = Append(chatInflight, [fn |-> "sendMessage", message |-> input])
            /\ sendOutcome' = "sent"
       ELSE /\ sendOutcome' = IF isLoading THEN "returned while pending" ELSE "returned"
            /\ UNCHANGED <<history, input, isLoading, chatInflight>>
    /\ UNCHANGED chatRef
    /\ UNCHANGED researchVars

\* the bug of clearing the pending flag in the try block only
SendReply_NoFinally(k, resp) ==
    /\ k \in 1..Len(chatInflight)
    /\ history' = Append(history,
           [role |-> "model", text |-> IF resp.ok THEN resp.text ELSE Fallback])
    /\ isLoading' = IF resp.ok THEN FALSE ELSE isLoading
    /\ chatInflight' = SubSeq(chatInflight, 1, k - 1)
                           \o SubSeq(chatInflight, k + 1, Len(chatInflight))
    /\ sendOutcome' = IF resp.ok THEN "resolved" ELSE "rejected"
    /\ UNCHANGED <<input, chatRef>>
    /\ UNCHANGED researchVars

\* the reply to a sendMessage call: the rest of handleSend
SendReply(k, resp) ==
    /\ k \in 1..Len(chatInflight)
    /\ history' = Append(history,
           [role |-> "model", text |-> IF resp.ok THEN resp.text ELSE Fallback])
    /\ isLoading' = FALSE
    /\ chatInflight' = SubSeq(chatInflight, 1, k - 1)
                           \o SubSeq(chatInflight, k + 1, Len(chatInflight))
    /\ sendOutcome' = IF resp.ok THEN "resolved" ELSE "rejected"
    /\ UNCHANGED <<input, chatRef>>
    /\ UNCHANGED researchVars

ChatNext ==
    \/ \E t \in ChatInputs : ChatSetInput(t)
    \/ HandleSend
    \/ \E k \in 1..MaxSends, resp \in ChatReplies : SendReply(k, resp)

ChatSpec == ChatInit /\ [][ChatNext]_vars

-----------------------------------------------------------------------------
(* Properties of the research run, read off its history *)

IsCall(e, f) == e.ev = "call" /\ e.fn = f
IsReturn(e, f) == e.ev = "return" /\ e.fn = f
IsThrow(e, f) == e.ev = "throw" /\ e.fn = f

\* the number of calls of f among the first n events of the run
CallsBefore(f, n) == Cardinality({k \in 1..n : IsCall(trace[k], f)})
Calls(f) == CallsBefore(f, Len(trace))

\* from event j on, the run calls nothing but synthesizeReport, and does
\* so at once
OnlySynthesisAfter(j) ==
    /\ j < Len(trace)
    /\ IsCall(trace[j + 1], "synthesizeReport")
    /\ \A k \in (j + 1)..Len(trace) :
           trace[k].ev = "call" => trace[k].fn = "synthesizeReport"

\* C1: a run calls evaluateCompleteness at most 3 times, and issues no
\* search call once the third evaluation has been called
C1_AtMostThreeRounds ==
    /\ Calls("evaluateCompleteness") <= 3
    /\ \A k \in 1..Len(trace) :
           IsCall(trace[k], "searchWithGrounding")
               => CallsBefore("evaluateCompleteness", k) < 3

C1_Witness ==
    /\ Calls("evaluateCompleteness") = 3
    /\ Calls("searchWithGrounding") > 0
    /\ stage = "COMPLETE"

\* C2: once an evaluation has returned is_complete = true, the next remote
\* call of the run is synthesizeReport, and no search and no refinement is
\* called after it
C2_CompleteStopsSearching ==
    \A j \in 1..Len(trace) :
        ( /\ IsReturn(trace[j], "evaluateCompleteness")
          /\ Has(trace[j].value, "is_complete")
          /\ trace[j].value.is_complete = TRUE )
            => OnlySynthesisAfter(j)

C2_Witness ==
    /\ stage = "COMPLETE"
    /\ Calls("evaluateCompleteness") = 2
    /\ \E j \in 1..Len(trace) :
           /\ IsReturn(trace[j], "evaluateCompleteness")
           /\ trace[j].value = EvComplete

\* C3: once a refinement has returned an empty list, the run calls neither
\* search nor evaluation again: its next remote call is synthesizeReport
C3_EmptyRefinementStops ==
    \A j \in 1..Len(trace) :
        ( /\ IsReturn(trace[j], "refineSearchQueries")
          /\ IsArray(trace[j].value)
          /\ trace[j].value.items = <<>> )
            => OnlySynthesisAfter(j)

C3_Witness ==
    /\ stage = "SYNTHESIZING"
    /\ Calls("evaluateCompleteness") = 1
    /\ IsReturn(trace[Len(trace) - 1], "refineSearchQueries")
    /\ trace[Len(trace) - 1].value = JArray(<<>>)

\* the searches of the run so far that returned uri, as places of the history
ReturnedBy(uri) ==
    {k \in 1..Len(trace) :
        /\ IsReturn(trace[k], "searchWithGrounding")
        /\ \E n \in 1..Len(trace[k].value.sources) : trace[k].value.sources[n].uri = uri}

Max(S) == CHOOSE m \in S : \A n \in S : n <= m

\* C4: the visible source list has no two entries of one uri, and each
\* entry has the title the latest successful search returning its uri gave
C4_SourcesDeduplicatedLastWins ==
    /\ \A m, n \in 1..Len(sources) : sources[m].uri = sources[n].uri => m = n
    /\ \A m \in 1..Len(sources) :
           /\ ReturnedBy(sources[m].uri) # {}
           /\ LET latest == trace[Max(ReturnedBy(sources[m].uri))].value.sources
              IN  \E n \in 1..Len(latest) : latest[n] = sources[m]

C4_Witness ==
    /\ Len(sources) = 2
    /\ \E j, k \in 1..Len(trace) :
           /\ j < k
           /\ k = Max(ReturnedBy("u1"))
           /\ j \in ReturnedBy("u1")
           /\ \E n \in 1..Len(trace[j].value.sources) :
                  /\ trace[j].value.sources[n].uri = "u1"
                  /\ \A m \in 1..Len(sources) : sources[m] # trace[j].value.sources[n]

\* C5: a handleSend invoked while a send is outstanding appends no user
\* message and issues no sendMessage call, so that at most one send is
\* outstanding at any time
C5_SendWhilePendingIsNoOp ==
    /\ [](Len(chatInflight) <= 1)
    /\ [][chatInflight # <<>>
              => /\ UserMessages(history') = UserMessages(history)
                 /\ Len(chatInflight') <= Len(chatInflight)]_vars

C5_Witness ==
    /\ chatInflight # <<>>
    /\ sendOutcome = "returned while pending"
    /\ Trim(input, " ") # <<>>
    /\ chatRef

\* the queries whose search failed, in the order of their calls
RECURSIVE FailedQueries(_)
FailedQueries(trc) ==
    IF Len(trc) < 2 THEN <<>>
    ELSE (IF IsCall(trc[1], "searchWithGrounding") /\ IsThrow(trc[2], "searchWithGrounding")
          THEN <<trc[1].call.query>> ELSE <<>>) \o FailedQueries(Tail(trc))

RECURSIVE WarnedQueries(_)
WarnedQueries(log) ==
    IF log = <<>> THEN <<>>
    ELSE (IF Head(log).msg = "Warning: Failed to search. Continuing..."
          THEN <<Head(log).query>> ELSE <<>>) \o WarnedQueries(Tail(log))

\* the return of generateResearchPlan or refineSearchQueries that gave the
\* queries of the iteration evaluated by the call at place e
QueriesGivenAt(e) ==
    Max({k \in 1..e : \/ IsReturn(trace[k], "generateResearchPlan")
                      \/ IsReturn(trace[k], "refineSearchQueries")})

\* C6: a search that throws is followed at once by the search of the next
\* query or by the evaluation, never by the end of the run; each failure
\* is logged as a warning for its query, and every evaluation comes after a
\* search call for each of the two phrasings of every item of its iteration
C6_SearchFailureIsSkipped ==
    /\ \A j \in 1..Len(trace) :
           IsThrow(trace[j], "searchWithGrounding")
               => /\ j < Len(trace)
                  /\ \/ IsCall(trace[j + 1], "searchWithGrounding")
                     \/ IsCall(trace[j + 1], "evaluateCompleteness")
    /\ WarnedQueries(progressLog) = FailedQueries(trace)
    /\ \A e \in 1..Len(trace) :
           IsCall(trace[e], "evaluateCompleteness")
               => LET g == QueriesGivenAt(e)
                  IN  Cardinality({k \in g..e : IsCall(trace[k], "searchWithGrounding")})
                          = 2 * Len(trace[g].value.items)

C6_Witness ==
    /\ Len(trace) >= 7
    /\ IsThrow(trace[4], "searchWithGrounding")
    /\ IsThrow(trace[6], "searchWithGrounding")
    /\ IsCall(trace[7], "evaluateCompleteness")
    /\ stage = "COMPLETE"

\* C7: the step in which synthesizeReport throws ends the run in ERROR with
\* a non-empty error message that is also the last line of the log, and
\* with no report; the stage is not COMPLETE while that is the run's end
C7_SynthesisFailureIsFatal ==
    /\ [](trace # <<>> /\ IsThrow(Last(trace), "synthesizeReport")
              => stage = "ERROR" /\ report = JNull)
    /\ [][inflight.fn = "synthesizeReport" /\ IsThrow(Last(trace'), "synthesizeReport")
              => /\ stage' = "ERROR"
                 /\ error' # NoError
                 /\ error'.message # ""
                 /\ Last(progressLog') = [msg |-> "Error", message |-> error'.message]
                 /\ report' = JNull]_vars

C7_Witness ==
    /\ trace # <<>>
    /\ IsThrow(Last(trace), "synthesizeReport")
    /\ stage = "ERROR"
    /\ Calls("searchWithGrounding") > 0

\* C8: a run that was handed a response of another shape than asked for,
\* in planning, evaluation, refinement or synthesis, does not reach COMPLETE
C8_MalformedIsFatal == malformed # {} => stage # "COMPLETE"

\* C9: a run whose evaluation was handed a response that is no JSON or
\* lacks is_complete or unanswered_questions is in ERROR and has not called
\* synthesizeReport
C9_MalformedEvaluationIsFatal ==
    "evaluateCompleteness" \in malformed
        => stage = "ERROR" /\ Calls("synthesizeReport") = 0

\* the evidence the successful searches among the first n events gave, each
\* block tagged with the query of its call
RECURSIVE EvidenceOf(_)
EvidenceOf(n) ==
    IF n < 2 THEN <<>>
    ELSE EvidenceOf(n - 1) \o
         (IF IsReturn(trace[n], "searchWithGrounding")
          THEN <<[query |-> trace[n - 1].call.query, text |-> trace[n].value.text]>>
          ELSE <<>>)

IsPrefix(s, t) == Len(s) <= Len(t) /\ SubSeq(t, 1, Len(s)) = s

\* C10: the evidence buffer is the blocks of the successful searches of the
\* run in the order of their calls; it is what every evaluation and the
\* synthesis are called with; and within a run a step only ever appends to
\* it, one block for the query whose search returned
C10_EvidenceAppendOnly ==
    /\ [](accumulatedResults = EvidenceOf(Len(trace)))
    /\ [](\A k \in 1..Len(trace) :
              IsCall(trace[k], "evaluateCompleteness") \/ IsCall(trace[k], "synthesizeReport")
                  => trace[k].call.searchResults = EvidenceOf(k))
    /\ [][stage' \notin {"IDLE", "PLANNING"}
              => /\ IsPrefix(accumulatedResults, accumulatedResults')
                 /\ accumulatedResults' # accumulatedResults
                        => /\ inflight.fn = "searchWithGrounding"
                           /\ Len(accumulatedResults') = Len(accumulatedResults) + 1
                           /\ Last(accumulatedResults').query = inflight.query]_vars

C10_Witness ==
    /\ stage = "SYNTHESIZING"
    /\ Len(accumulatedResults) = 3
    /\ Len(FailedQueries(trace)) = 1
    /\ inflight.searchResults = accumulatedResults

\* C11: a run calls generateResearchPlan exactly once, as its first remote
\* call and so before any search; from its return on the plan shown is the
\* plan it returned; and every evaluateCompleteness call is given that plan,
\* whatever queries the iteration searched
C11_PlanMadeOnceAndKept ==
    /\ trace # <<>>
           => /\ IsCall(trace[1], "generateResearchPlan")
              /\ Calls("generateResearchPlan") = 1
    /\ Len(trace) >= 2 /\ IsReturn(trace[2], "generateResearchPlan")
           => plan = trace[2].value
    /\ \A k \in 1..Len(trace) :
           /\ IsCall(trace[k], "searchWithGrounding")
                  => k > 2 /\ IsReturn(trace[2], "generateResearchPlan")
           /\ IsCall(trace[k], "evaluateCompleteness")
                  => /\ IsReturn(trace[2], "generateResearchPlan")
                     /\ trace[k].call.plan = trace[2].value

C11_Witness ==
    /\ stage = "COMPLETE"
    /\ Calls("evaluateCompleteness") = 3
    /\ Calls("refineSearchQueries") = 2
    /\ plan # EmptyPlan
    /\ \A k \in 1..Len(trace) :
           IsCall(trace[k], "evaluateCompleteness") => trace[k].call.plan = plan

\* C12: a run in COMPLETE has called synthesizeReport exactly once, and its
\* report is what that call returned and is not null; in ERROR the report
\* is null
C12_OneReportPerSuccessfulRun ==
    /\ stage = "COMPLETE"
           => /\ Calls("synthesizeReport") = 1
              /\ IsReturn(Last(trace), "synthesizeReport")
              /\ report = Last(trace).value
              /\ report # JNull
    /\ stage = "ERROR" => report = JNull

C12_Witness ==
    /\ stage = "COMPLETE"
    /\ report = GoodReport
    /\ Calls("synthesizeReport") = 1
    /\ Calls("evaluateCompleteness") = 2

\* C13: at most one remote call of the research flow is outstanding: in the
\* history of a run every call is followed by its own outcome before the
\* next call, and the one call without an outcome is the outstanding one;
\* and while a call is outstanding the view offers neither the button that
\* starts a run nor one that resets, so no second run starts beside it
C13_OneCallInFlight ==
    /\ \A k \in 1..Len(trace) :
           /\ trace[k].ev = "call" /\ k < Len(trace)
                  => trace[k + 1].ev # "call" /\ trace[k + 1].fn = trace[k].fn
           /\ trace[k].ev # "call"
                  => k > 1 /\ trace[k - 1].ev = "call"
    /\ inflight # None
           <=> trace # <<>> /\ Last(trace).ev = "call"
    /\ inflight # None
           => /\ Last(trace) = CallEv(inflight)
              /\ stage \in {"PLANNING", "SEARCHING", "EVALUATING", "SYNTHESIZING"}
              /\ ~SearchButtonShown
              /\ ~ResetButtonShown
    /\ stage \in {"IDLE", "ERROR", "COMPLETE"} => inflight = None

C13_Witness ==
    /\ inflight.fn = "searchWithGrounding"
    /\ Calls("searchWithGrounding") = 2
    /\ Calls("generateResearchPlan") = 1
    /\ ~SearchButtonShown
    /\ ~ResetButtonShown

\* the changes of stage the state machine is said to have
Edges ==
    { <<"IDLE", "PLANNING">>, <<"PLANNING", "SEARCHING">>,
      <<"SEARCHING", "EVALUATING">>, <<"EVALUATING", "SEARCHING">>,
      <<"EVALUATING", "SYNTHESIZING">>, <<"SYNTHESIZING", "COMPLETE">>,
      <<"PLANNING", "ERROR">>, <<"SEARCHING", "ERROR">>,
      <<"EVALUATING", "ERROR">>, <<"SYNTHESIZING", "ERROR">>,
      <<"COMPLETE", "IDLE">>, <<"ERROR", "IDLE">> }

\* C14: every setStage call either repeats the stage or moves it along one
\* of the edges; so SYNTHESIZING is entered from EVALUATING only, and
\* COMPLETE from SYNTHESIZING only
C14_StageFollowsEdges ==
    /\ stage = Last(stageSets)
    /\ \A k \in 1..(Len(stageSets) - 1) :
           \/ stageSets[k + 1] = stageSets[k]
           \/ <<stageSets[k], stageSets[k + 1]>> \in Edges

C14_Witness ==
    /\ stageSets = <<"EVALUATING", "SEARCHING">>
    /\ Calls("refineSearchQueries") = 2
    /\ inflight.fn = "searchWithGrounding"

\* what resetState leaves of a run: nothing
RunStateCleared ==
    /\ plan = EmptyPlan
    /\ accumulatedResults = <<>>
    /\ accumulatedSources = <<>>
    /\ sources = <<>>
    /\ report = JNull
    /\ error = NoError

\* C15: in ERROR no call of the run is outstanding; a step taken in ERROR
\* either stays there and leaves everything of the run as it is (only the
\* topic field and the message of a blank submission change), or starts
\* with resetState: the stage leaves ERROR through IDLE only, with plan,
\* evidence, sources, report, log and error cleared, the log of a new run
\* holding nothing but its first line
C15_ErrorIsAbsorbing ==
    /\ [](stage = "ERROR" => inflight = None /\ Last(trace).ev # "call")
    /\ [][stage = "ERROR" /\ stage' = "ERROR"
              => UNCHANGED <<report, sources, plan, progressLog,
                             accumulatedResults, accumulatedSources,
                             inflight, trace, runTopic, initialPlan, i,
                             queriesToSearch, qi>>]_vars
    /\ [](stageSets[1] = "ERROR" /\ stage # "ERROR"
              => /\ stageSets[2] = "IDLE"
                 /\ RunStateCleared
                 /\ \/ stage = "IDLE" /\ progressLog = <<>> /\ trace = <<>>
                    \/ /\ stage = "PLANNING"
                       /\ progressLog = <<[msg |-> "Phase 1: Planning research..."]>>
                       /\ Len(trace) = 1)

\* a failed run with a plan, evidence and sources, after a blank submission
C15_Witness ==
    /\ stageSets = <<"ERROR">>
    /\ error = ErrorOf("Please enter a research topic.")
    /\ plan # EmptyPlan
    /\ accumulatedResults # <<>>
    /\ sources # <<>>
    /\ Last(progressLog).msg = "Error"

\* C16: the step that takes the reply to a sendMessage call appends exactly
\* one model message, the fixed fallback text when the call failed and the
\* reply's text when it succeeded, changes no earlier message, and clears
\* the pending flag; with no send outstanding the flag is clear, and the
\* next handleSend with a non-blank input sends
C16_SendFailureIsContained ==
    /\ [][Len(chatInflight') < Len(chatInflight)
              => /\ sendOutcome' \in {"rejected", "resolved"}
                 /\ Len(history') = Len(history) + 1
                 /\ IsPrefix(history, history')
                 /\ Last(history')
                        = [role |-> "model",
                           text |-> IF sendOutcome' = "rejected" THEN Fallback ELSE "answer"]
                 /\ ~isLoading']_vars
    /\ [](chatInflight = <<>> => ~isLoading)
    /\ [][( /\ sendOutcome \in {"rejected", "resolved"}
            /\ sendOutcome' \notin {"rejected", "resolved"}
            /\ Trim(input, " ") # <<>>
            /\ chatRef )
              => /\ sendOutcome' = "sent"
                 /\ Len(chatInflight') = 1
                 /\ history' = Append(history, [role |-> "user", text |-> input])]_vars

\* a send accepted after a failed one, whose fallback is in the transcript
C16_Witness ==
    /\ sendOutcome = "sent"
    /\ Len(history) = 3
    /\ history[2] = [role |-> "model", text |-> Fallback]
    /\ isLoading

\* C17: the transcript alternates user, model, user, ... from a user
\* message on; it ends in a user message exactly while a send is
\* outstanding, and that send carries this last user message, so that the
\* model message appended next is the reply or the fallback to it; and a
\* step only ever appends one message, leaving the earlier ones as they are
C17_TranscriptAppendOnly ==
    /\ [](\A k \in 1..Len(history) :
              history[k].role = IF k % 2 = 1 THEN "user" ELSE "model")
    /\ [](Len(history) % 2 = 1 <=> chatInflight # <<>>)
    /\ [](chatInflight # <<>>
              => /\ Len(chatInflight) = 1
                 /\ Last(history).role = "user"
                 /\ Last(history).text = chatInflight[1].message)
    /\ [][/\ IsPrefix(history, history')
          /\ Len(history') <= Len(history) + 1]_vars

C17_Witness ==
    /\ Len(history) = 5
    /\ chatInflight # <<>>
    /\ history[2].text = "answer"
    /\ history[4].text = Fallback
    /\ history[1].text # history[3].text

\* C18: every plan generateResearchPlan returns to a run is a list of 3 to
\* 5 items, so that the first iteration issues 6 to 10 search calls
C18_PlanHasThreeToFiveItems ==
    \A k \in 1..Len(trace) :
        /\ IsReturn(trace[k], "generateResearchPlan")
               => /\ IsArray(trace[k].value)
                  /\ Len(trace[k].value.items) \in 3..5
        /\ ( /\ IsCall(trace[k], "evaluateCompleteness")
             /\ CallsBefore("evaluateCompleteness", k) = 1 )
               => CallsBefore("searchWithGrounding", k) \in 6..10

\* C19: once the third evaluation of a run has returned is_complete = false,
\* the run's next and only further remote call is synthesizeReport, called
\* at once with the evidence gathered so far; the run ends in COMPLETE when
\* that call returns, and in ERROR only when it throws
C19_BudgetSpentGoesToSynthesis ==
    \A j \in 1..Len(trace) :
        ( /\ IsReturn(trace[j], "evaluateCompleteness")
          /\ CallsBefore("evaluateCompleteness", j) = 3
          /\ Has(trace[j].value, "is_complete")
          /\ trace[j].value.is_complete = FALSE )
            => /\ OnlySynthesisAfter(j)
               /\ trace[j + 1].call.searchResults = EvidenceOf(j)
               /\ Len(trace) = j + 1 => stage = "SYNTHESIZING"
               /\ Len(trace) > j + 1
                      => /\ Len(trace) = j + 2
                         /\ IsReturn(trace[j + 2], "synthesizeReport") => stage = "COMPLETE"
                         /\ IsThrow(trace[j + 2], "synthesizeReport") => stage = "ERROR"

C19_Witness ==
    /\ stage = "COMPLETE"
    /\ report = GoodReport
    /\ Calls("evaluateCompleteness") = 3
    /\ trace[Len(trace) - 2].value = EvIncomplete
    /\ accumulatedResults # <<>>

\* C20: every refineSearchQueries call comes right after the return of the
\* first or the second evaluation of the run, and that evaluation said
\* is_complete = false; a run calls refineSearchQueries at most twice,
\* generateResearchPlan and synthesizeReport at most once, and
\* evaluateCompleteness at most 3 times
C20_RefineOnlyWhenIncomplete ==
    /\ \A k \in 1..Len(trace) :
           IsCall(trace[k], "refineSearchQueries")
               => /\ k > 1
                  /\ IsReturn(trace[k - 1], "evaluateCompleteness")
                  /\ Has(trace[k - 1].value, "is_complete")
                  /\ trace[k - 1].value.is_complete = FALSE
                  /\ CallsBefore("evaluateCompleteness", k) \in {1, 2}
    /\ Calls("refineSearchQueries") <= 2
    /\ Calls("generateResearchPlan") <= 1
    /\ Calls("evaluateCompleteness") <= 3
    /\ Calls("synthesizeReport") <= 1

\* the queries of the iteration begun by the return at place g of the history
QueriesOf(g) ==
    IF IsReturn(trace[g], "generateResearchPlan")
    THEN FlatMap(trace[g].value.items, "english_question", "japanese_question")
    ELSE FlatMap(trace[g].value.items, "english_query", "japanese_query")

\* the places of the history where an iteration begins: the return of a plan,
\* or of a refinement with queries
IterationStarts ==
    {g \in 1..Len(trace) :
        /\ \/ IsReturn(trace[g], "generateResearchPlan")
           \/ IsReturn(trace[g], "refineSearchQueries")
        /\ IsArray(trace[g].value)
        /\ \/ IsReturn(trace[g], "generateResearchPlan")
           \/ trace[g].value.items # <<>>}

\* C21: an iteration's history is the search of each of its queries in turn,
\* every one called and then returned or thrown, and after the last of them
\* one evaluateCompleteness call; an evaluation is called nowhere else, so
\* never with a search of its iteration outstanding or not yet tried
C21_EvaluationAfterAllSearches ==
    [](/\ \A g \in IterationStarts :
              LET qs == QueriesOf(g)
              IN  \A k \in 1..(2 * Len(qs) + 1) :
                      g + k <= Len(trace)
                          => IF k = 2 * Len(qs) + 1
                             THEN IsCall(trace[g + k], "evaluateCompleteness")
                             ELSE IF k % 2 = 1
                             THEN /\ IsCall(trace[g + k], "searchWithGrounding")
                                  /\ trace[g + k].call.query = qs[(k + 1) \div 2]
                             ELSE \/ IsReturn(trace[g + k], "searchWithGrounding")
                                  \/ IsThrow(trace[g + k], "searchWithGrounding")
       /\ \A e \in 1..Len(trace) :
              IsCall(trace[e], "evaluateCompleteness")
                  => \E g \in IterationStarts : e = g + 2 * Len(QueriesOf(g)) + 1
       /\ Calls("evaluateCompleteness") <= Cardinality(IterationStarts))

C21_Witness ==
    /\ Calls("evaluateCompleteness") = 2
    /\ Cardinality(IterationStarts) = 2
    /\ Len(FailedQueries(trace)) = 2
    /\ Len(QueriesOf(2)) = 2
    /\ inflight.fn = "evaluateCompleteness"

\* the queries of the search calls among the events from..to of the history
RECURSIVE QueriesSearched(_, _)
QueriesSearched(from, to) ==
    IF from > to THEN <<>>
    ELSE (IF IsCall(trace[from], "searchWithGrounding")
          THEN <<trace[from].call.query>> ELSE <<>>) \o QueriesSearched(from + 1, to)

\* the iteration (1, 2, 3) the search call at place p of the history is of
IterationOf(p) == CallsBefore("evaluateCompleteness", p) + 1

\* C22 as stated: each iteration searches its own query set, and no query
\* of an earlier iteration is searched again
C22_NoQuerySearchedAgain ==
    \A p, q \in 1..Len(trace) :
        ( /\ IsCall(trace[p], "searchWithGrounding")
          /\ IsCall(trace[q], "searchWithGrounding")
          /\ IterationOf(p) < IterationOf(q) )
            => trace[p].call.query # trace[q].call.query

\* an iteration begins at place g of the history
IsIterationStart(g) ==
    /\ \/ IsReturn(trace[g], "generateResearchPlan")
       \/ IsReturn(trace[g], "refineSearchQueries")
    /\ IsArray(trace[g].value)
    /\ \/ IsReturn(trace[g], "generateResearchPlan")
       \/ trace[g].value.items # <<>>

\* from place p on, in an iteration (begun, or none yet) of n items with the
\* queries qs, k of them searched: every search call is for the next query
\* of the iteration, and an evaluation is called when all 2 * n of them were
\* searched
RECURSIVE QueriesFollow(_, _, _, _, _)
QueriesFollow(p, begun, n, qs, k) ==
    IF p > Len(trace) THEN TRUE
    ELSE IF IsIterationStart(p)
    THEN QueriesFollow(p + 1, TRUE, Len(trace[p].value.items), QueriesOf(p), 0)
    ELSE IF IsCall(trace[p], "searchWithGrounding")
    THEN /\ begun
         /\ k < Len(qs)
         /\ trace[p].call.query = qs[k + 1]
         /\ QueriesFollow(p + 1, begun, n, qs, k + 1)
    ELSE IF IsCall(trace[p], "evaluateCompleteness")
    THEN /\ begun
         /\ k = Len(qs)
         /\ k = 2 * n
         /\ QueriesFollow(p + 1, begun, n, qs, k)
    ELSE QueriesFollow(p + 1, begun, n, qs, k)

\* C22, amended: the searches of an iteration are, one call per query and in
\* order, the two phrasings of every item of the plan (iteration 1) or of the
\* refinement that began it (later iterations), 2 calls per item, all of
\* them called before the evaluation; the queries of the iteration before
\* are not searched again, other than those the refinement returned once more
C22_QuerySetReplaced == [](QueriesFollow(1, FALSE, 0, <<>>, 0))

\* the third iteration searches what the second refinement returned, which
\* is what the first had returned and the second iteration had searched
C22_Witness ==
    /\ Calls("refineSearchQueries") = 2
    /\ Calls("evaluateCompleteness") = 3
    /\ plan # EmptyPlan
    /\ Cardinality(IterationStarts) = 3
    /\ QueriesSearched(Max(IterationStarts), Len(trace)) = <<"e1", "rj1">>
    /\ \E g \in IterationStarts :
           g > 2 /\ g < Max(IterationStarts) /\ QueriesOf(g) = <<"e1", "rj1">>

\* C23 as stated: from a reset on, while the stage stays IDLE, nothing of
\* the cleared state changes, the error included
C23_ClearedStateUntouched ==
    [][(stage = "IDLE" /\ Len(stageSets) = 2 /\ stage' = "IDLE")
           => UNCHANGED <<plan, accumulatedResults, accumulatedSources, sources,
                          progressLog, report, error, inflight, trace>>]_vars

\* C23, amended: a reset is taken in ERROR or COMPLETE only, with no call
\* of the run outstanding; in IDLE no call is outstanding and plan,
\* evidence, sources, log and report are empty, and the error is null or the
\* message of a submission with a blank topic, which is the one thing that
\* changes it; the stage leaves IDLE only by handleResearch starting a run
C23_ResetIsFinal ==
    /\ [][stage # "IDLE" /\ stage' = "IDLE"
              => /\ stage \in {"ERROR", "COMPLETE"}
                 /\ inflight = None
                 /\ Last(trace).ev # "call"
                 /\ error' = NoError]_vars
    /\ [](stage = "IDLE"
              => /\ inflight = None
                 /\ trace = <<>>
                 /\ plan = EmptyPlan
                 /\ accumulatedResults = <<>>
                 /\ accumulatedSources = <<>>
                 /\ sources = <<>>
                 /\ progressLog = <<>>
                 /\ report = JNull
                 /\ error \in {NoError, ErrorOf("Please enter a research topic.")})
    /\ [][stage = "IDLE" /\ stage' = "IDLE" /\ error' # error
              => Trim(topic, " ") = <<>> /\ topic' = topic]_vars
    /\ [][stage = "IDLE" /\ stage' # "IDLE"
              => /\ stage' = "PLANNING"
                 /\ Trim(topic, " ") # <<>>
                 /\ trace' = <<CallEv([fn |-> "generateResearchPlan", topic |-> topic])>>]_vars

\* the reset of a finished run that had a plan, evidence and sources
C23_Witness ==
    /\ stageSets = <<"COMPLETE", "IDLE">>
    /\ RunStateCleared
    /\ progressLog = <<>>
    /\ inflight = None
    /\ topic = <<>>

\* the number of items of the plan and of the refinements with queries that
\* were returned among the first p events of the run
RECURSIVE ItemsGiven(_)
ItemsGiven(p) ==
    IF p = 0 THEN 0
    ELSE ItemsGiven(p - 1)
             + (IF IsIterationStart(p) THEN Len(trace[p].value.items) ELSE 0)

\* C24: when every remote call eventually resolves or fails, a run with a
\* call outstanding, its first included, leads to COMPLETE or ERROR; and a
\* run makes at most 1 plan call, 3 evaluations, 2 refinements and 1
\* synthesis, and no more searches than 2 for each item of its plan and of
\* its refinements
C24_RunTerminates ==
    /\ (inflight # None) ~> (stage \in {"COMPLETE", "ERROR"})
    /\ [](/\ Calls("generateResearchPlan") <= 1
          /\ Calls("evaluateCompleteness") <= 3
          /\ Calls("refineSearchQueries") <= 2
          /\ Calls("synthesizeReport") <= 1
          /\ Calls("searchWithGrounding") <= 2 * ItemsGiven(Len(trace)))

C24_Witness ==
    /\ stage = "COMPLETE"
    /\ Calls("evaluateCompleteness") = 3
    /\ Calls("refineSearchQueries") = 2
    /\ Calls("searchWithGrounding") = 6
    /\ Len(FailedQueries(trace)) = 1

\* C25: the step that starts a run leaves nothing of an earlier run: the
\* evidence, the raw and the visible sources, the plan, the report and the
\* error are empty and the log holds the first line of the new run only; so
\* every evaluation and the synthesis are given evidence of searches of this
\* run only, and every source, raw or visible, is one a search of this run
\* returned
C25_RunStartsClean ==
    /\ [][Len(trace') = 1 /\ Len(trace) # 1
              => /\ IsCall(trace'[1], "generateResearchPlan")
                 /\ accumulatedResults' = <<>>
                 /\ accumulatedSources' = <<>>
                 /\ sources' = <<>>
                 /\ plan' = EmptyPlan
                 /\ report' = JNull
                 /\ error' = NoError
                 /\ progressLog' = <<[msg |-> "Phase 1: Planning research..."]>>]_vars
    /\ [](\A k \in 1..Len(trace) :
              IsCall(trace[k], "evaluateCompleteness") \/ IsCall(trace[k], "synthesizeReport")
                  => /\ trace[k].call.searchResults = EvidenceOf(k)
                     /\ Len(trace[k].call.searchResults) <= CallsBefore("searchWithGrounding", k))
    /\ [](/\ \A m \in 1..Len(sources) : ReturnedBy(sources[m].uri) # {}
          /\ \A m \in 1..Len(accumulatedSources) :
                 ReturnedBy(accumulatedSources[m].uri) # {})

\* a run started from the ERROR view of an earlier one
C25_Witness ==
    /\ stageSets = <<"ERROR", "IDLE", "PLANNING">>
    /\ Len(trace) = 1
    /\ accumulatedResults = <<>>
    /\ sources = <<>>
    /\ progressLog = <<[msg |-> "Phase 1: Planning research..."]>>

\* C26: the step in which searchWithGrounding throws for a query leaves the
\* evidence, the raw and the visible sources, the plan, the report and the
\* error as they were and adds the warning to the log; it makes no setStage
\* call of its own: the stage stays SEARCHING while a query of the iteration
\* remains, and after the last query the loop goes on to EVALUATING as it does
\* after a search that succeeded
C26_FailedSearchChangesOnlyLog ==
    [][( /\ inflight.fn = "searchWithGrounding"
         /\ Len(trace') > Len(trace)
         /\ IsThrow(trace'[Len(trace) + 1], "searchWithGrounding") )
           => /\ UNCHANGED <<accumulatedResults, accumulatedSources, sources>>
              /\ UNCHANGED <<plan, report, error, topic>>
              /\ stage = "SEARCHING"
              /\ stageSets' = IF qi < Len(queriesToSearch)
                              THEN <<"SEARCHING">>
                              ELSE <<"SEARCHING", "EVALUATING">>
              /\ Len(progressLog') = Len(progressLog) + 2
              /\ SubSeq(progressLog', 1, Len(progressLog)) = progressLog
              /\ progressLog'[Len(progressLog) + 1].msg
                     = "Warning: Failed to search. Continuing..."
              /\ progressLog'[Len(progressLog) + 1].query = queriesToSearch[qi]]_vars

\* a query failed after an earlier one had brought evidence and sources, and
\* the next query of the iteration is being searched
C26_Witness ==
    /\ Len(trace) >= 3
    /\ IsThrow(trace[Len(trace) - 1], "searchWithGrounding")
    /\ inflight.fn = "searchWithGrounding"
    /\ stageSets = <<"SEARCHING">>
    /\ accumulatedResults # <<>>
    /\ sources # <<>>

====
